---- MODULE Spec2Model ----
(***************************************************************************)
(* The game session controller of the chess GUI (examples/chess-gui):      *)
(* GameUI, its update handler and helpers, driven by SelectSquare,         *)
(* Promote, NewGame and CpuMove messages.  The rules engine (crate         *)
(* chess_engine: Board, Piece, Move, GameResult) is the controller's       *)
(* collaborator; it is modelled here as a small deterministic chess rules  *)
(* engine behind the calls the controller makes.                           *)
(***************************************************************************)
EXTENDS Integers, Sequences, FiniteSets, TLC

\* Bound of the model: engine play_move calls per session.
MaxPlies == 3

\* Bound of the model of the earlier GUI: moves applied per game.
MaxLegacyPlies == 2

-----------------------------------------------------------------------------
(* Data model: Option, Color, Position, Piece, Move, GameResult.           *)

None == [tag |-> "None"]
Some(x) == [tag |-> "Some", val |-> x]
is_some(o) == o.tag = "Some"
is_none(o) == o.tag = "None"

White == "White"
Black == "Black"
Color == {White, Black}
Opponent(c) == IF c = White THEN Black ELSE White

HUMAN_PLAYER == White
AI_PLAYER == Black

Position_new(r, c) == [row |-> r, col |-> c]
AllPositions == {Position_new(r, c) : r \in 0..7, c \in 0..7}
is_on_board(pos) == pos.row \in 0..7 /\ pos.col \in 0..7

PieceKinds == {"King", "Queen", "Rook", "Bishop", "Knight", "Pawn"}
PromotionKinds == {"Queen", "Rook", "Bishop", "Knight"}
MkPiece(k, c, pos) == [kind |-> k, color |-> c, pos |-> pos]

Move_Piece(from, to) == [tag |-> "Piece", from |-> from, to |-> to]
Move_Promotion(from, to, piece) ==
    [tag |-> "Promotion", from |-> from, to |-> to, piece |-> piece]
KingSideCastle == [tag |-> "KingSideCastle"]
QueenSideCastle == [tag |-> "QueenSideCastle"]

Continuing(b) == [tag |-> "Continuing", board |-> b]
Victory(c) == [tag |-> "Victory", winner |-> c]
Stalemate == [tag |-> "Stalemate"]
IllegalMove(m) == [tag |-> "IllegalMove", move |-> m]

Abs(n) == IF n < 0 THEN -n ELSE n
Sign(n) == IF n < 0 THEN -1 ELSE IF n > 0 THEN 1 ELSE 0
Max(a, b) == IF a > b THEN a ELSE b

-----------------------------------------------------------------------------
(* Rules engine: the Board value and the calls the controller makes on it. *)
(* A board is its side to move, its pieces, the castling rights left and   *)
(* the en-passant target square of the last move.                          *)

MkBoard(turn, pieces, castling, ep) ==
    [turn |-> turn, pieces |-> pieces, castling |-> castling, en_passant |-> ep]

get_turn_color(b) == b.turn

Occupied(b, pos) == \E p \in b.pieces : p.pos = pos

get_piece(b, pos) ==
    IF is_on_board(pos) /\ Occupied(b, pos)
    THEN Some(CHOOSE p \in b.pieces : p.pos = pos)
    ELSE None

has_ally_piece(b, pos, color) ==
    \E p \in b.pieces : p.pos = pos /\ p.color = color

\* the squares strictly between from and to on a row, column or diagonal
PathClear(b, from, to) ==
    LET dr == to.row - from.row
        dc == to.col - from.col
        n  == Max(Abs(dr), Abs(dc))
    IN \A k \in 1..(n - 1) :
         ~Occupied(b, Position_new(from.row + k * Sign(dr), from.col + k * Sign(dc)))

PawnDir(c) == IF c = White THEN 1 ELSE -1
PawnStartRow(c) == IF c = White THEN 1 ELSE 6
LastRank(c) == IF c = White THEN 7 ELSE 0
HomeRow(c) == IF c = White THEN 0 ELSE 7

\* piece p attacks square to (whatever stands on it)
Attacks(b, p, to) ==
    LET dr == to.row - p.pos.row
        dc == to.col - p.pos.col
        straight == (dr = 0) # (dc = 0)
        diagonal == Abs(dr) = Abs(dc) /\ dr # 0
    IN CASE p.kind = "King"   -> Max(Abs(dr), Abs(dc)) = 1
         [] p.kind = "Knight" -> {Abs(dr), Abs(dc)} = {1, 2}
         [] p.kind = "Rook"   -> straight /\ PathClear(b, p.pos, to)
         [] p.kind = "Bishop" -> diagonal /\ PathClear(b, p.pos, to)
         [] p.kind = "Queen"  -> (straight \/ diagonal) /\ PathClear(b, p.pos, to)
         [] p.kind = "Pawn"   -> dr = PawnDir(p.color) /\ Abs(dc) = 1

IsEnPassant(b, p, to) ==
    /\ p.kind = "Pawn"
    /\ b.en_passant = Some(to)
    /\ to.row - p.pos.row = PawnDir(p.color)
    /\ Abs(to.col - p.pos.col) = 1
    /\ ~Occupied(b, to)

\* piece p may go to square to, its own king's safety aside
PieceCanReach(b, p, to) ==
    /\ is_on_board(to)
    /\ to # p.pos
    /\ ~has_ally_piece(b, to, p.color)
    /\ IF p.kind = "Pawn"
       THEN LET dr == to.row - p.pos.row
                dc == to.col - p.pos.col
                d  == PawnDir(p.color)
            IN \/ dc = 0 /\ dr = d /\ ~Occupied(b, to)
               \/ /\ dc = 0 /\ dr = 2 * d /\ p.pos.row = PawnStartRow(p.color)
                  /\ ~Occupied(b, to)
                  /\ ~Occupied(b, Position_new(p.pos.row + d, p.pos.col))
               \/ Attacks(b, p, to) /\ has_ally_piece(b, to, Opponent(p.color))
               \/ IsEnPassant(b, p, to)
       ELSE Attacks(b, p, to)

is_in_check(b, color) ==
    \E k \in b.pieces :
        /\ k.kind = "King" /\ k.color = color
        /\ \E p \in b.pieces : p.color # color /\ Attacks(b, p, k.pos)

is_attacked(b, pos, by) == \E p \in b.pieces : p.color = by /\ Attacks(b, p, pos)

CastleRight(c, side) == <<c, side>>
CastleKingTo(side) == IF side = "King" THEN 6 ELSE 2
CastleRookFrom(side) == IF side = "King" THEN 7 ELSE 0
CastleRookTo(side) == IF side = "King" THEN 5 ELSE 3

AllCastleRights == {CastleRight(c, s) : c \in Color, s \in {"King", "Queen"}}

\* the castling rights lost when a piece leaves from or lands on to: those
\* whose king or rook home square is one of the two
RightsLost(from, to) ==
    {r \in AllCastleRights :
        {Position_new(HomeRow(r[1]), 4),
         Position_new(HomeRow(r[1]), CastleRookFrom(r[2]))} \cap {from, to} # {}}

\* the board after the piece on from went to to as a piece of kind kind
MovePiece(b, from, to, kind) ==
    LET p      == CHOOSE q \in b.pieces : q.pos = from
        taken  == IF IsEnPassant(b, p, to)
                  THEN {q \in b.pieces : q.pos = Position_new(from.row, to.col)}
                  ELSE {q \in b.pieces : q.pos = to}
        double == p.kind = "Pawn" /\ Abs(to.row - from.row) = 2
    IN MkBoard(b.turn,
               ((b.pieces \ {p}) \ taken) \cup {MkPiece(kind, p.color, to)},
               b.castling \ RightsLost(from, to),
               IF double THEN Some(Position_new(from.row + PawnDir(p.color), from.col))
                         ELSE None)

CastleBoard(b, c, side) ==
    LET row  == HomeRow(c)
        king == MkPiece("King", c, Position_new(row, 4))
        rook == MkPiece("Rook", c, Position_new(row, CastleRookFrom(side)))
    IN MkBoard(b.turn,
               (b.pieces \ {king, rook})
                 \cup {MkPiece("King", c, Position_new(row, CastleKingTo(side))),
                       MkPiece("Rook", c, Position_new(row, CastleRookTo(side)))},
               b.castling \ {CastleRight(c, "King"), CastleRight(c, "Queen")},
               None)

\* the move carried out for the side to move; the turn is not yet changed
apply_move(b, m) ==
    CASE m.tag = "Piece" ->
           MovePiece(b, m.from, m.to, (CHOOSE q \in b.pieces : q.pos = m.from).kind)
      [] m.tag = "Promotion" -> MovePiece(b, m.from, m.to, m.piece.kind)
      [] m.tag = "KingSideCastle" -> CastleBoard(b, b.turn, "King")
      [] m.tag = "QueenSideCastle" -> CastleBoard(b, b.turn, "Queen")

change_turn(b) == [b EXCEPT !.turn = Opponent(b.turn)]

CanCastle(b, c, side) ==
    LET row == HomeRow(c)
        lo  == IF side = "King" THEN 5 ELSE 1
        hi  == IF side = "King" THEN 6 ELSE 3
    IN /\ CastleRight(c, side) \in b.castling
       /\ MkPiece("King", c, Position_new(row, 4)) \in b.pieces
       /\ MkPiece("Rook", c, Position_new(row, CastleRookFrom(side))) \in b.pieces
       /\ \A col \in lo..hi : ~Occupied(b, Position_new(row, col))
       /\ \A col \in {4, CastleRookTo(side), CastleKingTo(side)} :
             ~is_attacked(b, Position_new(row, col), Opponent(c))

is_legal_move(b, m, player_color) ==
    CASE m.tag \in {"Piece", "Promotion"} ->
           /\ is_on_board(m.from) /\ is_on_board(m.to)
           /\ has_ally_piece(b, m.from, player_color)
           /\ LET p == CHOOSE q \in b.pieces : q.pos = m.from
              IN /\ PieceCanReach(b, p, m.to)
                 /\ IF m.tag = "Promotion"
                    THEN /\ p.kind = "Pawn" /\ m.to.row = LastRank(p.color)
                         /\ m.piece.kind \in PromotionKinds
                    ELSE ~(p.kind = "Pawn" /\ m.to.row = LastRank(p.color))
                 /\ ~is_in_check(apply_move(b, m), player_color)
      [] m.tag = "KingSideCastle" -> CanCastle(b, player_color, "King")
      [] m.tag = "QueenSideCastle" -> CanCastle(b, player_color, "Queen")

has_legal_move(b, c) ==
    \/ \E p \in {q \in b.pieces : q.color = c} :
         \E to \in AllPositions :
            is_legal_move(b,
                          IF p.kind = "Pawn" /\ to.row = LastRank(c)
                          THEN Move_Promotion(p.pos, to, MkPiece("Queen", c, to))
                          ELSE Move_Piece(p.pos, to),
                          c)
    \/ \E side \in {"King", "Queen"} : CanCastle(b, c, side)

is_checkmate(b) == is_in_check(b, b.turn) /\ ~has_legal_move(b, b.turn)
is_stalemate(b) == ~is_in_check(b, b.turn) /\ ~has_legal_move(b, b.turn)

\* the result of a legal move by mover that led to board next_turn
ResultOn(next_turn, mover) ==
    IF has_legal_move(next_turn, next_turn.turn) THEN Continuing(next_turn)
    ELSE IF is_in_check(next_turn, next_turn.turn) THEN Victory(mover)
    ELSE Stalemate

play_move(b, m) ==
    IF is_legal_move(b, m, b.turn)
    THEN ResultOn(change_turn(apply_move(b, m)), b.turn)
    ELSE IllegalMove(m)

-----------------------------------------------------------------------------
(* GameUI: the controller's state, its messages and its update handler.    *)

VARIABLES
    board,              \* GameUI.board
    from_square,        \* GameUI.from_square: Option<Position>
    promotion_state,    \* GameUI.promotion_state: Option<(Position, Position)>
    game_over_message,  \* GameUI.game_over_message: Option<String>
    captured_white,     \* GameUI.captured_white: Vec<Piece>
    captured_black,     \* GameUI.captured_black: Vec<Piece>
    STARTING_BOARD,     \* the process-wide starting board set by run_gui
    pending,            \* boards of the Command::perform requests not yet answered
    plies,              \* engine play_move calls in this session (bounded)
    last,               \* what the last delivered message did
    ChessBoard_result,  \* ChessBoard.result (the earlier GUI, examples/gui)
    aborted             \* the program has panicked (unreachable!)

vars == <<board, from_square, promotion_state, game_over_message, captured_white,
          captured_black, STARTING_BOARD, pending, plies, last,
          ChessBoard_result, aborted>>

SelectSquare(pos) == [tag |-> "SelectSquare", pos |-> pos]
Promote(piece) == [tag |-> "Promote", piece |-> piece]
NewGame == [tag |-> "NewGame"]
CpuMove(m) == [tag |-> "CpuMove", move |-> m]

MkGameUI(b, from, promo, msg, cw, cb) ==
    [board |-> b, from_square |-> from, promotion_state |-> promo,
     game_over_message |-> msg, captured_white |-> cw, captured_black |-> cb]

\* the GameUI value the variables hold
Self == MkGameUI(board, from_square, promotion_state, game_over_message,
                 captured_white, captured_black)

\* mutant: NewGame replaces the board but keeps the capture lists
GameUI_new_KeepsLedger ==
    MkGameUI(STARTING_BOARD, None, None, None, captured_white, captured_black)

\* GameUI::default() with the board replaced by the starting board
GameUI_new == MkGameUI(STARTING_BOARD, None, None, None, <<>>, <<>>)

\* What handling a message did: the new GameUI, the Command returned (the
\* board handed to the move function, or None for Command::none()), the
\* move submitted to the engine and the GameResult of play_move, if called.
Outcome(self, cmd, move, result) ==
    [self |-> self, cmd |-> cmd, move |-> move, result |-> result]

Ignored(self) == Outcome(self, None, None, None)

cpu_move_target(m) ==
    IF m.tag \in {"Piece", "Promotion"} THEN m.to ELSE Position_new(-1, -1)

is_promotion_move(from, to, b) ==
    LET p == get_piece(b, from)
    IN IF is_some(p) /\ p.val.kind = "Pawn"
       THEN to.row = (IF p.val.color = White THEN 7 ELSE 0)
       ELSE FALSE

\* mutant: any piece moving two columns castles
determine_move_AnyPiece(from, to, b) ==
    IF Abs(from.col - to.col) = 2
    THEN IF to.col > from.col THEN KingSideCastle ELSE QueenSideCastle
    ELSE Move_Piece(from, to)

determine_move(from, to, b) ==
    LET p == get_piece(b, from)
    IN IF is_some(p) /\ p.val.kind = "King" /\ Abs(from.col - to.col) = 2
       THEN IF to.col > from.col THEN KingSideCastle ELSE QueenSideCastle
       ELSE Move_Piece(from, to)

\* mutant: the piece goes to the list of the other color
add_capture_MoverColor(self, captured) ==
    IF captured.color = White
    THEN [self EXCEPT !.captured_black = Append(@, captured)]
    ELSE [self EXCEPT !.captured_white = Append(@, captured)]

add_capture(self, captured) ==
    IF captured.color = White
    THEN [self EXCEPT !.captured_white = Append(@, captured)]
    ELSE [self EXCEPT !.captured_black = Append(@, captured)]

\* mutant: the end of the game empties the capture lists
handle_game_over_ClearsLedger(self, result) ==
    [self EXCEPT !.game_over_message = Some("Game over"),
                 !.captured_white = <<>>, !.captured_black = <<>>]

\* Continuing is unreachable!() in the code; no caller passes it
handle_game_over(self, result) ==
    [self EXCEPT !.game_over_message =
        Some(CASE result.tag = "Victory" -> result.winner \o " wins!"
               [] result.tag = "Stalemate" -> "Stalemate!"
               [] result.tag = "IllegalMove" -> "Illegal Move!")]

\* the outcome with the move that was handed to the engine filled in
WithMove(out, m) == [out EXCEPT !.move = Some(m)]

\* mutant: the end of the game shows the board without the piece taken
handle_move_result_RemovesTaken(self, result) ==
    IF result.tag = "Continuing"
    THEN IF get_turn_color(result.board) = AI_PLAYER
         THEN Outcome([self EXCEPT !.board = result.board], Some(result.board),
                      None, Some(result))
         ELSE Outcome([self EXCEPT !.board = result.board], None, None, Some(result))
    ELSE Outcome(handle_game_over(
                     [self EXCEPT !.board.pieces =
                         @ \ {q \in @ : \E i \in 1..Len(self.captured_black) :
                                            q = self.captured_black[i]}],
                     result),
                 None, None, Some(result))

\* mutant: the request carries the board as it was before the move
handle_move_result_StaleBoard(self, result) ==
    IF result.tag = "Continuing"
    THEN IF get_turn_color(result.board) = AI_PLAYER
         THEN Outcome([self EXCEPT !.board = result.board], Some(self.board),
                      None, Some(result))
         ELSE Outcome([self EXCEPT !.board = result.board], None, None, Some(result))
    ELSE Outcome(handle_game_over(self, result), None, None, Some(result))

handle_move_result(self, result) ==
    IF result.tag = "Continuing"
    THEN IF get_turn_color(result.board) = AI_PLAYER
         THEN Outcome([self EXCEPT !.board = result.board], Some(result.board),
                      None, Some(result))
         ELSE Outcome([self EXCEPT !.board = result.board], None, None, Some(result))
    ELSE Outcome(handle_game_over(self, result), None, None, Some(result))

\* the capture step shared by both paths: the piece on the move's target
\* square of the current board, if any, goes to the ledger
record_capture(self, m) ==
    IF is_some(get_piece(self.board, cpu_move_target(m)))
    THEN add_capture(self, get_piece(self.board, cpu_move_target(m)).val)
    ELSE self

\* mutant: the capture is recorded before the legality check, as on the
\* CpuMove path
play_human_move_CaptureFirst(self, m) ==
    IF ~is_legal_move(self.board, m, HUMAN_PLAYER)
    THEN Outcome(record_capture(self, m), None, Some(m), None)
    ELSE WithMove(handle_move_result(record_capture(self, m),
                                     play_move(self.board, m)), m)

play_human_move(self, m) ==
    IF ~is_legal_move(self.board, m, HUMAN_PLAYER)
    THEN Outcome(self, None, Some(m), None)
    ELSE WithMove(handle_move_result(record_capture(self, m),
                                     play_move(self.board, m)), m)

\* mutant: the pawn is always promoted to a queen
update_Promote_AlwaysQueen(self, piece) ==
    play_human_move([self EXCEPT !.promotion_state = None],
                    Move_Promotion(self.promotion_state.val[1],
                                   self.promotion_state.val[2],
                                   [piece EXCEPT !.kind = "Queen"]))

\* update, Message::Promote with a promotion pending
update_Promote(self, piece) ==
    play_human_move([self EXCEPT !.promotion_state = None],
                    Move_Promotion(self.promotion_state.val[1],
                                   self.promotion_state.val[2], piece))

\* mutant: the selection survives the second click of a promotion
second_click_KeepsSelection(self, from, pos) ==
    IF is_promotion_move(from, pos, self.board)
    THEN Ignored([self EXCEPT !.promotion_state = Some(<<from, pos>>)])
    ELSE play_human_move([self EXCEPT !.from_square = None],
                         determine_move(from, pos, self.board))

\* update, Message::SelectSquare with a square already selected
second_click(self, from, pos) ==
    IF is_promotion_move(from, pos, self.board)
    THEN Ignored([self EXCEPT !.promotion_state = Some(<<from, pos>>),
                              !.from_square = None])
    ELSE play_human_move([self EXCEPT !.from_square = None],
                         determine_move(from, pos, self.board))

\* mutant: the first click selects any occupied square
update_SelectSquare_AnyPiece(self, pos) ==
    IF get_turn_color(self.board) = HUMAN_PLAYER
    THEN IF is_none(self.from_square)
         THEN IF Occupied(self.board, pos)
              THEN Ignored([self EXCEPT !.from_square = Some(pos)])
              ELSE Ignored(self)
         ELSE second_click(self, self.from_square.val, pos)
    ELSE Ignored(self)

\* mutant: the check that it is the human's turn is missing
update_SelectSquare_NoTurnGuard(self, pos) ==
    IF is_none(self.from_square)
    THEN IF has_ally_piece(self.board, pos, HUMAN_PLAYER)
         THEN Ignored([self EXCEPT !.from_square = Some(pos)])
         ELSE Ignored(self)
    ELSE second_click(self, self.from_square.val, pos)

\* mutant: a click during the opponent's turn asks the move function again
update_SelectSquare_AsksAgain(self, pos) ==
    IF get_turn_color(self.board) = HUMAN_PLAYER
    THEN IF is_none(self.from_square)
         THEN IF has_ally_piece(self.board, pos, HUMAN_PLAYER)
              THEN Ignored([self EXCEPT !.from_square = Some(pos)])
              ELSE Ignored(self)
         ELSE second_click(self, self.from_square.val, pos)
    ELSE Outcome(self, Some(self.board), None, None)

\* update, Message::SelectSquare
update_SelectSquare(self, pos) ==
    IF get_turn_color(self.board) = HUMAN_PLAYER
    THEN IF is_none(self.from_square)
         THEN IF has_ally_piece(self.board, pos, HUMAN_PLAYER)
              THEN Ignored([self EXCEPT !.from_square = Some(pos)])
              ELSE Ignored(self)
         ELSE second_click(self, self.from_square.val, pos)
    ELSE Ignored(self)

\* mutant: the board returned with Continuing is not stored
cpu_move_result_KeepsBoard(self, game_result) ==
    IF game_result.tag = "Continuing"
    THEN Outcome(self, None, None, Some(game_result))
    ELSE Outcome(handle_game_over(self, game_result), None, None, Some(game_result))

\* update, Message::CpuMove: the dispatch on the result of play_move
cpu_move_result(self, game_result) ==
    IF game_result.tag = "Continuing"
    THEN Outcome([self EXCEPT !.board = game_result.board], None, None,
                 Some(game_result))
    ELSE Outcome(handle_game_over(self, game_result), None, None, Some(game_result))

\* mutant: the check that it is the opponent's turn is missing
update_CpuMove_NoTurnGuard(self, cpu_move) ==
    WithMove(cpu_move_result(record_capture(self, cpu_move),
                             play_move(self.board, cpu_move)), cpu_move)

\* update, Message::CpuMove
update_CpuMove(self, cpu_move) ==
    IF get_turn_color(self.board) = AI_PLAYER
    THEN WithMove(cpu_move_result(record_capture(self, cpu_move),
                                  play_move(self.board, cpu_move)), cpu_move)
    ELSE Ignored(self)

\* mutant: the guard that ignores every message but Promote while a
\* promotion is pending is missing
update_NoPromotionGuard(self, message) ==
    IF is_some(self.game_over_message)
    THEN IF message.tag = "NewGame" THEN Ignored(GameUI_new) ELSE Ignored(self)
    ELSE IF message.tag = "Promote" /\ is_some(self.promotion_state)
    THEN update_Promote(self, message.piece)
    ELSE CASE message.tag = "SelectSquare" -> update_SelectSquare(self, message.pos)
           [] message.tag = "CpuMove" -> update_CpuMove(self, message.move)
           [] OTHER -> Ignored(self)

update(self, message) ==
    IF is_some(self.game_over_message)
    THEN IF message.tag = "NewGame" THEN Ignored(GameUI_new) ELSE Ignored(self)
    ELSE IF message.tag = "Promote" /\ is_some(self.promotion_state)
    THEN update_Promote(self, message.piece)
    ELSE IF is_some(self.promotion_state)
    THEN Ignored(self)
    ELSE CASE message.tag = "SelectSquare" -> update_SelectSquare(self, message.pos)
           [] message.tag = "CpuMove" -> update_CpuMove(self, message.move)
           [] OTHER -> Ignored(self)

-----------------------------------------------------------------------------
(* The starting boards run_gui is configured with, and the inputs.         *)

P(r, c) == Position_new(r, c)

BackRank == <<"Rook", "Knight", "Bishop", "Queen", "King", "Bishop", "Knight", "Rook">>

\* Board::default(): the standard starting position, White to move
BoardDefault ==
    MkBoard(White,
            {MkPiece(BackRank[c + 1], White, P(0, c)) : c \in 0..7}
              \cup {MkPiece("Pawn", White, P(1, c)) : c \in 0..7}
              \cup {MkPiece("Pawn", Black, P(6, c)) : c \in 0..7}
              \cup {MkPiece(BackRank[c + 1], Black, P(7, c)) : c \in 0..7},
            AllCastleRights, None)

\* a pawn one step from promotion, a rook it can take while promoting
BoardPromotion ==
    MkBoard(White,
            {MkPiece("King", White, P(5, 6)), MkPiece("Pawn", White, P(6, 1)),
             MkPiece("King", Black, P(7, 7)), MkPiece("Rook", Black, P(7, 2))},
            {}, None)

\* a castle, pawn captures for both sides and an en-passant capture
BoardCastle ==
    MkBoard(White,
            {MkPiece("King", White, P(0, 4)), MkPiece("Rook", White, P(0, 7)),
             MkPiece("Pawn", White, P(4, 4)),
             MkPiece("King", Black, P(7, 4)), MkPiece("Pawn", Black, P(6, 3)),
             MkPiece("Pawn", Black, P(5, 5))},
            {CastleRight(White, "King")}, None)

\* queen and king against the bare king: mate and stalemate in one
BoardQueen ==
    MkBoard(White,
            {MkPiece("King", White, P(5, 6)), MkPiece("Queen", White, P(6, 1)),
             MkPiece("King", Black, P(7, 7))},
            {}, None)

\* the opponent mates in one after the only human move
BoardCpuMate ==
    MkBoard(White,
            {MkPiece("King", White, P(0, 7)),
             MkPiece("King", Black, P(2, 6)), MkPiece("Queen", Black, P(1, 4))},
            {}, None)

\* a starting board with Black to move
BoardBlackFirst == change_turn(BoardQueen)

StartingBoards ==
    {BoardDefault, BoardPromotion, BoardCastle, BoardQueen, BoardCpuMate,
     BoardBlackFirst}

\* the squares the model clicks and the opponent moves between
Squares ==
    {P(0, 2), P(0, 4), P(0, 5), P(0, 6), P(0, 7),
     P(1, 4), P(1, 6), P(3, 4),
     P(4, 3), P(4, 4), P(5, 3), P(5, 4), P(5, 5), P(5, 6),
     P(6, 1), P(6, 3), P(6, 5), P(6, 6),
     P(7, 1), P(7, 2), P(7, 4), P(7, 6), P(7, 7)}

\* the pieces the promotion row's buttons carry (promotion_row_view)
PromotionPieces(self) ==
    LET to == IF is_some(self.promotion_state) THEN self.promotion_state.val[2]
              ELSE P(7, 0)
        color == get_turn_color(self.board)
    IN {MkPiece(k, color, to) : k \in PromotionKinds}

\* the moves of the side to move between the squares of the model
CandidateMoves(b) ==
    {Move_Piece(p.pos, to) :
        p \in {q \in b.pieces : q.color = b.turn /\ q.pos \in Squares},
        to \in Squares}
      \cup {KingSideCastle, QueenSideCastle}

\* moves no position of the model allows: the king of the side to move
\* jumps onto the other king's square, or onto its own square
ContractBreakingMoves(b) ==
    {Move_Piece(k.pos, o.pos) :
        k \in {q \in b.pieces : q.kind = "King" /\ q.color = b.turn},
        o \in {q \in b.pieces : q.kind = "King"}}

\* what the move function may return for board b: a legal move, or, when it
\* breaks its contract, an illegal one
CpuMoves(b) ==
    {m \in CandidateMoves(b) : is_legal_move(b, m, b.turn)}
      \cup ContractBreakingMoves(b)

Messages(self) ==
    {SelectSquare(pos) : pos \in Squares}
      \cup {Promote(piece) : piece \in PromotionPieces(self)}
      \cup {NewGame}
      \cup {CpuMove(m) : m \in CpuMoves(self.board)}

-----------------------------------------------------------------------------
(* The state machine.                                                      *)

\* the record kept of the last message: its kind, the move handed to
\* play_move and the result (if it was called), the Command returned, and
\* whether a human move was turned down by is_legal_move
Last(kind, out) ==
    [kind |-> kind,
     move |-> IF is_some(out.result) THEN out.move ELSE None,
     result |-> out.result,
     cmd |-> out.cmd,
     rejected |-> is_some(out.move) /\ is_none(out.result)]

Init ==
    /\ STARTING_BOARD \in StartingBoards
    /\ board = STARTING_BOARD
    /\ from_square = None
    /\ promotion_state = None
    /\ game_over_message = None
    /\ captured_white = <<>>
    /\ captured_black = <<>>
    /\ pending = <<>>
    /\ plies = 0
    /\ last = Last("new", Ignored(Self))
    /\ ChessBoard_result = None
    /\ aborted = FALSE

\* the variables after a message whose handling gave out; answered is what
\* is left of pending once the request this message answers is taken out
Deliver(message, out, answered) ==
    /\ plies + (IF is_some(out.result) THEN 1 ELSE 0) <= MaxPlies
    /\ board' = out.self.board
    /\ from_square' = out.self.from_square
    /\ promotion_state' = out.self.promotion_state
    /\ game_over_message' = out.self.game_over_message
    /\ captured_white' = out.self.captured_white
    /\ captured_black' = out.self.captured_black
    /\ pending' = IF is_some(out.cmd) THEN Append(answered, out.cmd.val)
                                      ELSE answered
    /\ plies' = IF message.tag = "NewGame" /\ is_some(game_over_message)
                THEN 0
                ELSE plies + (IF is_some(out.result) THEN 1 ELSE 0)
    /\ last' = Last(message.tag, out)
    /\ UNCHANGED <<STARTING_BOARD, ChessBoard_result, aborted>>

DeliverSelectSquare ==
    \E pos \in Squares : Deliver(SelectSquare(pos), update(Self, SelectSquare(pos)), pending)

DeliverPromote ==
    \E piece \in PromotionPieces(Self) : Deliver(Promote(piece), update(Self, Promote(piece)), pending)

DeliverNewGame == Deliver(NewGame, update(Self, NewGame), pending)

Remove(seq, i) == SubSeq(seq, 1, i - 1) \o SubSeq(seq, i + 1, Len(seq))

\* a request completes: the move function's move for the board it was given
DeliverCpuMove ==
    \E i \in 1..Len(pending) :
        \E m \in CpuMoves(pending[i]) :
            Deliver(CpuMove(m), update(Self, CpuMove(m)), Remove(pending, i))

Next == DeliverSelectSquare \/ DeliverPromote \/ DeliverNewGame \/ DeliverCpuMove

Spec == Init /\ [][Next]_vars

-----------------------------------------------------------------------------
(* Properties.                                                             *)

\* r (the record of the last message, or an outcome of update) says that
\* the engine applied a move: play_move was called and did not refuse it
Applied(r) == is_some(r.result) /\ r.result.val.tag # "IllegalMove"

HumanKinds == {"SelectSquare", "Promote"}

GameOver == is_some(game_over_message)

\* C1: GameOver is entered if and only if the engine returned Victory or
\* Stalemate for the move of the message just handled; no other result,
\* IllegalMove in particular, puts the controller into GameOver.
C1_GameOverIffVictoryOrStalemate ==
    [][ (~GameOver /\ GameOver')
          <=> (is_some(last'.result)
                 /\ last'.result.val.tag \in {"Victory", "Stalemate"}) ]_vars

\* C2: a CpuMove whose move the engine reports as IllegalMove is fatal: it
\* never leaves the controller in a session state, GameOver with a message
\* included.
C2_IllegalCpuMoveIsFatal ==
    ~( /\ last.kind = "CpuMove"
       /\ is_some(last.result)
       /\ last.result.val.tag = "IllegalMove"
       /\ game_over_message = Some("Illegal Move!") )

\* the same message again, right after out: no move is applied and the
\* board and both capture lists stay as out left them
DuplicateIgnored(out, again) ==
    /\ ~Applied(again)
    /\ again.self.board = out.self.board
    /\ again.self.captured_white = out.self.captured_white
    /\ again.self.captured_black = out.self.captured_black

AppliedOnce(message, out) ==
    Applied(out) => DuplicateIgnored(out, update(out.self, message))

\* C3: a move is applied at most once: when a message applies a move, the
\* same message delivered again at once applies none and leaves the board
\* and both capture lists unchanged.
C3_MoveAppliedAtMostOnce ==
    \A message \in Messages(Self) : AppliedOnce(message, update(Self, message))

C3_Witness ==
    /\ Applied(last) /\ last.kind = "Promote"
    /\ \E message \in Messages(Self) : message.tag = "Promote"

\* C4: at most one opponent-move request is in flight at any time.
C4_AtMostOneRequestInFlight == Len(pending) <= 1

C4_Witness == Len(pending) = 1 /\ is_some(last.cmd) /\ last.kind = "Promote"

\* the piece on the destination square of move m on board b, if any (a
\* castle names no destination square)
OnDestination(b, m) ==
    IF m.tag \in {"Piece", "Promotion"} /\ Occupied(b, m.to)
    THEN {q \in b.pieces : q.pos = m.to}
    ELSE {}

LedgerGrowsBy(taken) ==
    /\ captured_white' =
         IF \E q \in taken : q.color = White
         THEN Append(captured_white, CHOOSE q \in taken : TRUE)
         ELSE captured_white
    /\ captured_black' =
         IF \E q \in taken : q.color = Black
         THEN Append(captured_black, CHOOSE q \in taken : TRUE)
         ELSE captured_black

\* C5: for every applied move a piece is appended to the ledger if and only
\* if the move's destination square was occupied on the board before the
\* move; the piece is that occupant, appended to the list of its own color.
C5_CaptureIffDestinationOccupied ==
    [][ Applied(last') => LedgerGrowsBy(OnDestination(board, last'.move.val)) ]_vars

C5_Witness ==
    /\ Applied(last) /\ last.kind = "CpuMove"
    /\ Len(captured_white) = 1 /\ captured_black = <<>>

AwaitingSecondClick(self) ==
    /\ is_none(self.game_over_message)
    /\ is_none(self.promotion_state)
    /\ is_some(self.from_square)

PawnOn(b, pos) == \E q \in b.pieces : q.pos = pos /\ q.kind = "Pawn"

\* the second click of a promotion: the choice becomes pending, nothing else
EntersPromotionChoice(self, pos, out) ==
    /\ out.self = [self EXCEPT !.promotion_state = Some(<<self.from_square.val, pos>>),
                               !.from_square = None]
    /\ is_none(out.move) /\ is_none(out.result) /\ is_none(out.cmd)

PromotionFlow(self, message, out) ==
    /\ ( /\ AwaitingSecondClick(self)
         /\ message.tag = "SelectSquare"
         /\ PawnOn(self.board, self.from_square.val)
         /\ message.pos.row = 7 )
       => EntersPromotionChoice(self, message.pos, out)
    /\ (is_some(self.promotion_state) /\ message.tag # "Promote")
       => (is_none(out.result) /\ out.self.board = self.board)
    /\ ( /\ is_none(self.game_over_message)
         /\ is_some(self.promotion_state)
         /\ message.tag = "Promote" )
       => out.move = Some(Move_Promotion(self.promotion_state.val[1],
                                         self.promotion_state.val[2], message.piece))

\* C6: with a pawn selected, a click on the promotion rank makes the choice
\* pending without consulting the engine or changing the board; no move is
\* applied until a Promote message arrives, and the move then submitted is
\* Promotion(from, to, piece) with the stored from and to and the piece of
\* the message.
C6_PromotionFlow ==
    (is_some(from_square) \/ is_some(promotion_state)) =>
        \A message \in Messages(Self) :
            PromotionFlow(Self, message, update(Self, message))

C6_Witness ==
    /\ last.kind = "Promote" /\ Applied(last)
    /\ last.move.val.tag = "Promotion"
    /\ last.move.val.piece.kind = "Knight"

GameOverFrame(self, message, out) ==
    /\ is_none(out.cmd) /\ is_none(out.move) /\ is_none(out.result)
    /\ out.self = IF message.tag = "NewGame"
                  THEN MkGameUI(STARTING_BOARD, None, None, None, <<>>, <<>>)
                  ELSE self

\* C7: in GameOver every message other than NewGame leaves the controller
\* unchanged; NewGame restores the starting board, empties both capture
\* lists, clears message, selection and pending promotion, and issues no
\* request.
C7_GameOverAcceptsOnlyNewGame ==
    GameOver =>
        \A message \in Messages(Self) :
            GameOverFrame(Self, message, update(Self, message))

C7_Witness ==
    /\ GameOver /\ last.kind = "SelectSquare"
    /\ captured_black # <<>>

HasSelection == is_some(from_square) \/ is_some(promotion_state)

C9_HumanMoveIssuesOneRequest ==
    ( /\ last.kind \in HumanKinds
      /\ is_some(last.result)
      /\ last.result.val.tag = "Continuing"
      /\ get_turn_color(last.result.val.board) = AI_PLAYER )
    => /\ board = last.result.val.board
       /\ is_none(from_square) /\ is_none(promotion_state)
       /\ ~GameOver
       /\ last.cmd = Some(board)
       /\ pending = <<board>>

C9_Witness ==
    /\ last.move = Some(KingSideCastle)
    /\ is_some(last.result) /\ last.result.val.tag = "Continuing"
    /\ pending # <<>>

\* C10: an illegal human move is recovered silently: nothing is selected or
\* pending afterwards, the board and both capture lists are unchanged, no
\* request is issued and GameOver is not entered.
C10_IllegalHumanMoveRecovered ==
    [][ last'.rejected =>
          /\ is_none(from_square') /\ is_none(promotion_state')
          /\ board' = board
          /\ captured_white' = captured_white
          /\ captured_black' = captured_black
          /\ pending' = pending /\ is_none(last'.cmd)
          /\ ~GameOver' ]_vars

C10_Witness ==
    /\ last.rejected /\ last.kind = "Promote"
    /\ is_none(promotion_state)

\* the controller fields a message can change, and the requests in flight
Session == <<board, from_square, promotion_state, game_over_message,
             captured_white, captured_black>>

\* a human move was applied, the opponent color is to move and the request
\* issued for it is unanswered
AwaitingOpponent ==
    /\ ~GameOver
    /\ get_turn_color(board) = AI_PLAYER
    /\ pending # <<>>

\* C11: while the opponent move is awaited, every message other than CpuMove
\* (SelectSquare, Promote, NewGame) leaves the board, selection, pending
\* promotion, capture lists and terminal message unchanged and issues no
\* request.
C11_AwaitingOpponentIgnoresOthers ==
    [][ (AwaitingOpponent /\ last'.kind # "CpuMove")
          => /\ UNCHANGED Session
             /\ pending' = pending
             /\ is_none(last'.cmd) /\ is_none(last'.result) ]_vars

C11_Witness ==
    /\ AwaitingOpponent
    /\ last.kind = "NewGame"
    /\ plies = 1

\* C12: while a promotion choice is pending, every message that is not
\* Promote (SelectSquare on any square, NewGame, CpuMove) leaves the
\* controller unchanged and issues no request: the pending promotion cannot
\* be abandoned.
C12_PendingPromotionIgnoresOthers ==
    is_some(promotion_state) =>
        \A message \in Messages(Self) :
            message.tag # "Promote" => update(Self, message) = Ignored(Self)

C12_Witness ==
    /\ is_some(promotion_state)
    /\ last.kind = "NewGame"
    /\ \E message \in Messages(Self) : message.tag = "CpuMove"

\* a piece of the human's color stands on pos
OwnPieceOn(b, pos) == \E q \in b.pieces : q.pos = pos /\ q.color = HUMAN_PLAYER

\* the click on pos replaced the selection and attempted no move
Reselects(self, pos, out) ==
    /\ out.self = [self EXCEPT !.from_square = Some(pos)]
    /\ is_none(out.move) /\ is_none(out.result) /\ is_none(out.cmd)

\* C13: in AwaitingSecondClick(from), a click on a different square that
\* holds another piece of the human's color replaces the selection with that
\* square and attempts no move.
C13_ReselectionReplacesSelection ==
    AwaitingSecondClick(Self) =>
        \A pos \in Squares :
            (pos # from_square.val /\ OwnPieceOn(board, pos))
                => Reselects(Self, pos, update(Self, SelectSquare(pos)))

AwaitingFirstClick(self) ==
    /\ is_none(self.game_over_message)
    /\ is_none(self.promotion_state)
    /\ is_none(self.from_square)
    /\ get_turn_color(self.board) = HUMAN_PLAYER

\* the first click: pos is selected when it holds a piece of the human's
\* color, and nothing changes otherwise
FirstClick(self, pos, out) ==
    /\ out.self = IF OwnPieceOn(self.board, pos)
                  THEN [self EXCEPT !.from_square = Some(pos)]
                  ELSE self
    /\ is_none(out.move) /\ is_none(out.result) /\ is_none(out.cmd)

\* C14: in AwaitingFirstClick a click on a square holding a piece of the
\* human's color selects that square; a click on an empty square or on an
\* enemy piece changes nothing and applies no move.
C14_FirstClickSelectsOwnPiece ==
    AwaitingFirstClick(Self) =>
        \A pos \in Squares :
            FirstClick(Self, pos, update(Self, SelectSquare(pos)))

C14_Witness ==
    /\ from_square = Some(P(6, 1))
    /\ last.kind = "SelectSquare"
    /\ plies = 0
    /\ \E q \in board.pieces : q.color = AI_PLAYER /\ q.pos \in Squares

-----------------------------------------------------------------------------
(* The session under the move function's contract: every request issued by *)
(* Command::perform completes, once, with a move legal for the board it    *)
(* was given.                                                              *)

\* every move of the side to move, over the whole board
AllMoves(b) ==
    {Move_Piece(p.pos, to) : p \in {q \in b.pieces : q.color = b.turn},
                             to \in AllPositions}

\* the legal answers the model draws from: those between the squares of the
\* model, or, where there is none, any legal move on the board
LegalAmong(inside, b) ==
    IF inside # {} THEN inside
    ELSE {m \in AllMoves(b) : is_legal_move(b, m, b.turn)}

LegalCpuMoves(b) ==
    LegalAmong({m \in CandidateMoves(b) : is_legal_move(b, m, b.turn)}, b)

\* a message is handled as in Deliver; a move that issues a request is played
\* only while the bound leaves room for the answer to that request
FairDeliver(message, out, answered) ==
    /\ is_some(out.cmd) => plies + 2 <= MaxPlies
    /\ Deliver(message, out, answered)

HumanSelectSquare ==
    \E pos \in Squares :
        FairDeliver(SelectSquare(pos), update(Self, SelectSquare(pos)), pending)

HumanPromote ==
    \E piece \in PromotionPieces(Self) :
        FairDeliver(Promote(piece), update(Self, Promote(piece)), pending)

HumanNewGame == FairDeliver(NewGame, update(Self, NewGame), pending)

\* a request completes with a legal move
AnswerRequest ==
    \E i \in 1..Len(pending) :
        \E m \in LegalCpuMoves(pending[i]) :
            FairDeliver(CpuMove(m), update(Self, CpuMove(m)), Remove(pending, i))

FairNext == HumanSelectSquare \/ HumanPromote \/ HumanNewGame \/ AnswerRequest

\* AnswerRequest can be taken: a request is unanswered, the bound has room
\* for the answer and the move function has a legal move to return
CanAnswer ==
    /\ pending # <<>>
    /\ plies < MaxPlies
    /\ \E i \in 1..Len(pending) : LegalCpuMoves(pending[i]) # {}

\* a step that answers a request: under FairNext these are the
\* AnswerRequest steps
RequestAnswered ==
    /\ pending # <<>>
    /\ plies < MaxPlies
    /\ \E i \in 1..Len(pending) : pending' = Remove(pending, i)

\* the iced runtime runs every future of Command::perform to completion and
\* delivers its message: weak fairness of the answer to a request
AnswerFairness == WF_pending(RequestAnswered)

FairSpec == Init /\ [][FairNext]_vars /\ AnswerFairness

\* C15: when every request is eventually answered by one CpuMove carrying a
\* move legal for the opponent color, a controller awaiting the opponent
\* move eventually reaches AwaitingFirstClick (human to move, nothing
\* selected) or GameOver.
C15_OpponentMoveResolves ==
    /\ [](AwaitingOpponent => CanAnswer)
    /\ AwaitingOpponent ~> (AwaitingFirstClick(Self) \/ GameOver)

C15_Witness ==
    /\ AwaitingFirstClick(Self)
    /\ last.kind = "CpuMove" /\ Applied(last)
    /\ pending = <<>>

-----------------------------------------------------------------------------
(* The capture ledger.                                                     *)

IsPrefix(s, t) == Len(s) <= Len(t) /\ SubSeq(t, 1, Len(s)) = s

LedgerSize == Len(captured_white) + Len(captured_black)

\* the message just handled was NewGame, accepted in GameOver
Restarted == GameOver /\ last'.kind = "NewGame"

\* C16: the ledger is append-only during a session: for every message other
\* than NewGame accepted in GameOver each capture list keeps its old value as
\* a prefix and the two grow by at most one element in total.
C16_LedgerAppendOnly ==
    [][ ~Restarted =>
          /\ IsPrefix(captured_white, captured_white')
          /\ IsPrefix(captured_black, captured_black')
          /\ LedgerSize' <= LedgerSize + 1 ]_vars

C16_Witness ==
    /\ captured_black # <<>>
    /\ last.kind = "CpuMove" /\ Applied(last)
    /\ ~GameOver

\* C17: the ledger changes only together with an applied move: a message
\* whose move the engine rejects as IllegalMove (a CpuMove with an illegal
\* move onto an occupied square in particular) appends nothing.
C17_LedgerChangesOnlyWithAppliedMove ==
    [][ (captured_white' # captured_white \/ captured_black' # captured_black)
          => (Applied(last') \/ Restarted) ]_vars

OfColor(pieces, c) == {q \in pieces : q.color = c}

\* the pieces of color c missing from the board are as many as the ledger
\* holds for c
LedgerAccountsFor(c, captured) ==
    Cardinality(OfColor(board.pieces, c)) + Len(captured)
        = Cardinality(OfColor(STARTING_BOARD.pieces, c))

\* C18: every piece an applied move removed from the board is in the ledger:
\* the pieces missing from the current board relative to the starting board
\* are exactly those in captured_white and captured_black.
C18_LedgerEqualsMissingPieces ==
    /\ LedgerAccountsFor(White, captured_white)
    /\ LedgerAccountsFor(Black, captured_black)

-----------------------------------------------------------------------------
(* Move construction and the end of the game.                              *)

KingOn(b, pos) == \E q \in b.pieces : q.pos = pos /\ q.kind = "King"

\* the move two clicks stand for
MoveOfClicks(from, to, b) ==
    IF KingOn(b, from) /\ to.col = from.col + 2 THEN KingSideCastle
    ELSE IF KingOn(b, from) /\ to.col = from.col - 2 THEN QueenSideCastle
    ELSE Move_Piece(from, to)

\* C19: determine_move(from, to) is KingSideCastle when the piece on from is
\* a king and to is exactly two columns to the right of from, QueenSideCastle
\* when it is a king and to is exactly two columns to the left, and the plain
\* move from -> to in every other case.
C19_DetermineMove ==
    is_some(from_square) =>
        \A to \in AllPositions :
            determine_move(from_square.val, to, board)
                = MoveOfClicks(from_square.val, to, board)

C19_Witness ==
    /\ last.kind = "SelectSquare" /\ Applied(last)
    /\ last.move = Some(KingSideCastle)
    /\ KingOn(board, P(0, 6))

\* C20: when an applied move, human or opponent, yields Victory or Stalemate
\* the board stays as it was before the move, while the piece on the move's
\* destination square, if any, has been appended to the ledger.
C20_TerminalMoveLeavesBoard ==
    [][ (Applied(last') /\ last'.result.val.tag \in {"Victory", "Stalemate"})
          => /\ board' = board
             /\ GameOver'
             /\ LedgerGrowsBy(OnDestination(board, last'.move.val)) ]_vars

\* in GameOver a captured piece is both in the ledger and on the board
C20_Witness ==
    /\ GameOver /\ Applied(last)
    /\ last.result.val.tag = "Victory"
    /\ \E i \in 1..Len(captured_black) : captured_black[i] \in board.pieces

-----------------------------------------------------------------------------
(* Session-wide invariants.                                                *)

\* C21: no stuck session: in every state that is not GameOver, if the side to
\* move is the opponent color then an opponent-move request is in flight;
\* this holds from the initial state and after NewGame for every starting
\* board, one with Black to move included.
C21_NoStuckSession ==
    (~GameOver /\ get_turn_color(board) = AI_PLAYER) => pending # <<>>

\* C22: from_square and promotion_state are never both set; both are unset in
\* GameOver and while the opponent color is to move; and a selected square
\* holds a piece of the human color on the current board.
C22_SelectionState ==
    /\ ~(is_some(from_square) /\ is_some(promotion_state))
    /\ (GameOver \/ get_turn_color(board) = AI_PLAYER) => ~HasSelection
    /\ is_some(from_square) => OwnPieceOn(board, from_square.val)

C22_Witness ==
    /\ is_some(from_square)
    /\ last.kind = "SelectSquare"
    /\ plies = 2

\* the moves a late CpuMove may carry: moves of either side on this board
StaleMoves(b) == CpuMoves(b) \cup CandidateMoves(change_turn(b))

\* the message was discarded: no move applied, board and ledger as before
Discarded(self, out) ==
    /\ is_none(out.result) /\ is_none(out.cmd)
    /\ out.self.board = self.board
    /\ out.self.captured_white = self.captured_white
    /\ out.self.captured_black = self.captured_black

\* C23: no stale opponent response: in GameOver no request is in flight, so
\* none computed for the previous session can arrive after NewGame; and a
\* CpuMove delivered while the human color is to move is discarded without
\* changing the board or the ledger.
C23_NoStaleOpponentResponse ==
    /\ GameOver => pending = <<>>
    /\ get_turn_color(board) = HUMAN_PLAYER =>
          \A m \in StaleMoves(board) :
              Discarded(Self, update(Self, CpuMove(m)))

C23_Witness ==
    /\ GameOver /\ pending = <<>>
    /\ last.kind = "CpuMove" /\ Applied(last)
    /\ get_turn_color(board) = AI_PLAYER

-----------------------------------------------------------------------------
(* The earlier GUI (examples/gui): ChessBoard, a Sandbox with the single   *)
(* message SelectSquare, whose update plays the human move and the         *)
(* opponent's reply in one call.  The human plays the side to move.        *)

E1 == Position_new(0, 4)
G1 == Position_new(0, 6)
C1 == Position_new(0, 2)
E8 == Position_new(7, 4)
G8 == Position_new(7, 6)
C8 == Position_new(7, 2)

get_current_player_color(b) == b.turn

get_king_pos(b, color) ==
    IF \E q \in b.pieces : q.kind = "King" /\ q.color = color
    THEN Some((CHOOSE q \in b.pieces : q.kind = "King" /\ q.color = color).pos)
    ELSE None

MkChessBoard(sb, res, from, b) ==
    [starting_board |-> sb, result |-> res, from_square |-> from, board |-> b]

LegacySelf == MkChessBoard(STARTING_BOARD, ChessBoard_result, from_square, board)

\* What an update did: the new ChessBoard, whether the program panicked, and
\* the results of the human's and the opponent's play_move, if called.
LegacyOutcome(self, panicked, human, reply) ==
    [self |-> self, aborted |-> panicked, human |-> human, reply |-> reply]

Terminal(r) == r.tag \in {"Victory", "Stalemate"}

\* update: the move two clicks stand for
legacy_move(from, to, b) ==
    IF /\ (from = E1 /\ to = G1) \/ (from = E8 /\ to = G8)
       /\ Some(from) = get_king_pos(b, get_current_player_color(b))
    THEN KingSideCastle
    ELSE IF /\ (from = E1 /\ to = C1) \/ (from = E8 /\ to = C8)
            /\ Some(from) = get_king_pos(b, get_current_player_color(b))
    THEN QueenSideCastle
    ELSE Move_Piece(from, to)

\* mutant: an illegal reply is stored as the result, as in chess-gui
legacy_reply_StoresIllegal(self, human_result, reply_result) ==
    IF reply_result.tag = "Continuing"
    THEN LegacyOutcome([self EXCEPT !.board = reply_result.board], FALSE,
                       Some(human_result), Some(reply_result))
    ELSE LegacyOutcome([self EXCEPT !.result = reply_result,
                                    !.board = self.starting_board], FALSE,
                       Some(human_result), Some(reply_result))

\* mutant: after a terminal reply the board shows the human's move
legacy_reply_KeepsBoard(self, human_result, reply_result) ==
    CASE reply_result.tag = "Continuing" ->
           LegacyOutcome([self EXCEPT !.board = reply_result.board], FALSE,
                         Some(human_result), Some(reply_result))
      [] Terminal(reply_result) ->
           LegacyOutcome([self EXCEPT !.result = reply_result,
                                      !.board = human_result.board], FALSE,
                         Some(human_result), Some(reply_result))
      [] reply_result.tag = "IllegalMove" ->
           LegacyOutcome(self, TRUE, Some(human_result), Some(reply_result))

\* update: the dispatch on the result of the opponent's reply
legacy_reply(self, human_result, reply_result) ==
    CASE reply_result.tag = "Continuing" ->
           LegacyOutcome([self EXCEPT !.board = reply_result.board], FALSE,
                         Some(human_result), Some(reply_result))
      [] Terminal(reply_result) ->
           LegacyOutcome([self EXCEPT !.result = reply_result,
                                      !.board = self.starting_board], FALSE,
                         Some(human_result), Some(reply_result))
      [] reply_result.tag = "IllegalMove" ->
           LegacyOutcome(self, TRUE, Some(human_result), Some(reply_result))

\* update: the dispatch on the result of the human move; cpu_move is what
\* get_cpu_move returns for the board after it
legacy_played(self, to, human_result, cpu_move) ==
    CASE human_result.tag = "Continuing" ->
           legacy_reply(self, human_result, play_move(human_result.board, cpu_move))
      [] Terminal(human_result) ->
           LegacyOutcome([self EXCEPT !.result = human_result,
                                      !.board = self.starting_board], FALSE,
                         Some(human_result), None)
      [] human_result.tag = "IllegalMove" ->
           LegacyOutcome([self EXCEPT !.from_square = Some(to)], FALSE,
                         Some(human_result), None)

ChessBoard_update(self, message, cpu_move) ==
    IF Terminal(self.result)
    THEN LegacyOutcome([self EXCEPT !.board = self.starting_board,
                                    !.result = Continuing(self.starting_board)],
                       FALSE, None, None)
    ELSE IF is_none(self.from_square)
    THEN LegacyOutcome([self EXCEPT !.from_square = Some(message.pos)],
                       FALSE, None, None)
    ELSE IF self.from_square.val # message.pos
    THEN legacy_played([self EXCEPT !.from_square = None], message.pos,
                       play_move(self.board,
                                 legacy_move(self.from_square.val, message.pos,
                                             self.board)),
                       cpu_move)
    ELSE LegacyOutcome([self EXCEPT !.from_square = Some(message.pos)],
                       FALSE, None, None)

\* the board get_cpu_move is asked about, if the human move went through
AfterHuman(human_result) ==
    IF human_result.tag = "Continuing" THEN Some(human_result.board) ELSE None

\* the board get_cpu_move is asked about when self handles a click on pos
AskedBoard(self, pos) ==
    IF /\ ~Terminal(self.result)
       /\ is_some(self.from_square)
       /\ self.from_square.val # pos
    THEN AfterHuman(play_move(self.board,
                              legacy_move(self.from_square.val, pos, self.board)))
    ELSE None

\* what get_cpu_move may return (any move stands for a call never made)
LegacyCpuMoves(asked) ==
    IF is_some(asked) THEN CpuMoves(asked.val) ELSE {KingSideCastle}

TagOf(r) == IF is_some(r) THEN Some(r.val.tag) ELSE None

\* the record kept of the last update: the kinds of result its two play_move
\* calls gave, if they were made
LegacyLast(out) ==
    [kind |-> "SelectSquare", human |-> TagOf(out.human), reply |-> TagOf(out.reply)]

\* play_move calls of an update that applied a move
Played(out) ==
    (IF is_some(out.human) /\ out.human.val.tag # "IllegalMove" THEN 1 ELSE 0)
      + (IF is_some(out.reply) /\ out.reply.val.tag # "IllegalMove" THEN 1 ELSE 0)

\* ChessBoard::default(): the board is the starting board or, at random, the
\* board after get_cpu_move's first move on it
FirstBoards(sb) ==
    {sb} \cup {play_move(sb, m).board :
                  m \in {n \in CpuMoves(sb) : play_move(sb, n).tag = "Continuing"}}

\* the starting boards run is configured with in this model
LegacyStartingBoards == {BoardCastle, BoardQueen, BoardCpuMate}

\* the squares the model clicks
LegacySquares ==
    {E1, G1, P(0, 5), P(0, 7), P(1, 4), P(1, 6), P(4, 4), P(5, 5), P(5, 6),
     P(6, 1), P(6, 5), P(6, 6), E8, P(7, 7)}

LegacyInit ==
    /\ STARTING_BOARD \in LegacyStartingBoards
    /\ board \in FirstBoards(STARTING_BOARD)
    /\ ChessBoard_result = Continuing(STARTING_BOARD)
    /\ from_square = None
    /\ aborted = FALSE
    /\ plies = 0
    /\ last = [kind |-> "new", human |-> None, reply |-> None]
    /\ promotion_state = None
    /\ game_over_message = None
    /\ captured_white = <<>>
    /\ captured_black = <<>>
    /\ pending = <<>>

\* the variables after an update that gave out
LegacyStep(out) ==
    /\ plies + Played(out) <= MaxLegacyPlies
    /\ board' = out.self.board
    /\ from_square' = out.self.from_square
    /\ ChessBoard_result' = out.self.result
    /\ aborted' = out.aborted
    /\ plies' = IF Terminal(ChessBoard_result) THEN 0 ELSE plies + Played(out)
    /\ last' = LegacyLast(out)
    /\ UNCHANGED <<STARTING_BOARD, promotion_state, game_over_message,
                   captured_white, captured_black, pending>>

\* a click while the program runs
LegacyUpdate ==
    /\ ~aborted
    /\ \E pos \in LegacySquares :
         \E cpu_move \in LegacyCpuMoves(AskedBoard(LegacySelf, pos)) :
            LegacyStep(ChessBoard_update(LegacySelf, SelectSquare(pos), cpu_move))

LegacyNext == LegacyUpdate

LegacySpec == LegacyInit /\ [][LegacyNext]_vars

-----------------------------------------------------------------------------
(* Properties of the earlier GUI.                                          *)

IsResult(r, tag) == is_some(r) /\ r.val.tag = tag

\* what one update of self for a click on pos must have done
LegacyContract(self, pos, out) ==
    /\ IsResult(out.human, "Continuing") => is_some(out.reply)
    /\ (~out.aborted /\ out.self.result.tag = "Continuing")
          => get_turn_color(out.self.board) = get_turn_color(self.board)
    /\ IsResult(out.human, "IllegalMove")
          => /\ out.self.board = self.board
             /\ out.self.from_square = Some(pos)
             /\ out.self.result = self.result
             /\ ~out.aborted
    /\ IsResult(out.reply, "IllegalMove") <=> out.aborted
    /\ out.self.result.tag # "IllegalMove"

\* C24: in ChessBoard::update a legal human move and the opponent's reply are
\* applied in the same update, so after every update with result Continuing
\* the side to move is the one before the update; an illegal human move
\* leaves the board unchanged and moves the selection to the clicked square;
\* an opponent reply reported as IllegalMove aborts the program and is never
\* stored as a result.
C24_LegacyUpdate ==
    ~aborted =>
        \A pos \in LegacySquares :
            \A cpu_move \in LegacyCpuMoves(AskedBoard(LegacySelf, pos)) :
                LegacyContract(LegacySelf, pos,
                               ChessBoard_update(LegacySelf, SelectSquare(pos), cpu_move))

C24_Witness ==
    /\ aborted
    /\ last.human = Some("Continuing")
    /\ last.reply = Some("IllegalMove")

TerminalTags == {Some("Victory"), Some("Stalemate")}

\* the tag of the terminal result the last update met
TerminalTag(l) == IF l.human \in TerminalTags THEN l.human ELSE l.reply

\* C25: when a human move or the opponent's reply yields Victory or
\* Stalemate, the board is at once replaced by the starting board and the
\* result is stored; the next SelectSquare, whatever its position, only
\* resets the board to the starting board and the result to Continuing: it
\* selects no square and applies no move.
C25_LegacyTerminalReset ==
    [][ /\ (last'.human \in TerminalTags \/ last'.reply \in TerminalTags)
            => /\ board' = STARTING_BOARD
               /\ Some(ChessBoard_result'.tag) = TerminalTag(last')
        /\ Terminal(ChessBoard_result)
            => /\ board' = STARTING_BOARD
               /\ ChessBoard_result' = Continuing(STARTING_BOARD)
               /\ from_square' = None
               /\ last'.human = None /\ last'.reply = None
               /\ ~aborted' ]_vars

C25_Witness ==
    /\ last.kind = "SelectSquare" /\ last.human = None
    /\ from_square = None
    /\ ChessBoard_result = Continuing(STARTING_BOARD)

====
